---- MODULE Spec2Model ----
(***************************************************************************)
(* State-machine model of the ProjectQ simulator backends:                 *)
(*   QasmSimulatorProjectQ         (qasm_simulator_projectq.py)            *)
(*   StatevectorSimulatorProjectQ  (statevector_simulator_projectq.py)     *)
(*                                                                         *)
(* The ProjectQ kernel (Simulator / CppSim / MainEngine) is an external    *)
(* library.  It is modelled at its interface: a seeded random stream, one  *)
(* abstract value per qubit (0, 1 or Superposed) and the log of the calls  *)
(* issued since the register was last in the ground state, which stands    *)
(* for the amplitude vector.  Angles are integers in units of pi/2.        *)
(***************************************************************************)
EXTENDS Integers, Sequences, FiniteSets, TLC

\* ------------------------------------------------------------------ bounds
MaxShots == 2
MaxInstr == 3
SeedBits == 2
MaxRuns == 2
CondBits == 3

\* ------------------------------------------------------- program constants
FinalStateKey == 32767

None == 0 - 1
Superposed == 1 + 1

Pow2(n) == 2 ^ n

RECURSIVE BitAnd(_, _)
\* Python's a & b on non-negative integers.
BitAnd(a, b) ==
  IF a = 0 \/ b = 0 THEN 0
  ELSE (a % 2) * (b % 2) + 2 * BitAnd(a \div 2, b \div 2)

RECURSIVE BitAndNot(_, _)
\* Python's a & (~b) for non-negative a and b.
BitAndNot(a, b) ==
  IF a = 0 THEN 0
  ELSE (a % 2) * (1 - (b % 2)) + 2 * BitAndNot(a \div 2, b \div 2)

RECURSIVE BitOr(_, _)
\* Python's a | b on non-negative integers.
BitOr(a, b) ==
  IF a = 0 THEN b
  ELSE IF b = 0 THEN a
  ELSE (IF a % 2 = 1 \/ b % 2 = 1 THEN 1 ELSE 0) + 2 * BitOr(a \div 2, b \div 2)

Min(a, b) == IF a < b THEN a ELSE b
Max(a, b) == IF a < b THEN b ELSE a

\* Python's key[start:stop] on a sequence, for integer (possibly negative)
\* start and stop; PyLen is used for an omitted stop.
PyIndex(n, len) == IF n < 0 THEN Max(len + n, 0) ELSE Min(n, len)
PySlice(key, start, stop) ==
  LET lo == PyIndex(start, Len(key))
      hi == PyIndex(stop, Len(key))
  IN  IF lo < hi THEN SubSeq(key, lo + 1, hi) ELSE <<>>

RECURSIVE ToBin(_)
\* format(n, 'b'): the binary digits of n, most significant first.
ToBin(n) ==
  IF n < 2 THEN <<ToString(n)>> ELSE Append(ToBin(n \div 2), ToString(n % 2))

RECURSIVE Zeros(_)
Zeros(n) == IF n <= 0 THEN <<>> ELSE <<"0">> \o Zeros(n - 1)

\* str.zfill(width): pad on the left with '0', never truncate.
zfill(s, width) == Zeros(width - Len(s)) \o s

\* ------------------------------------------------- ordered dictionaries
\* A Python dict is a sequence of [key, value] entries in insertion order.
DictHas(d, k) == \E n \in 1..Len(d) : d[n].key = k
DictGet(d, k) == d[CHOOSE n \in 1..Len(d) : d[n].key = k].value
\* d[k] = v: an existing key keeps its position and takes the new value.
DictSet(d, k, v) ==
  IF DictHas(d, k)
  THEN [n \in 1..Len(d) |-> IF d[n].key = k THEN [key |-> k, value |-> v] ELSE d[n]]
  ELSE Append(d, [key |-> k, value |-> v])
\* d.pop(k): the dict without the entry of k.
DictPop(d, k) == SelectSeq(d, LAMBDA e : e.key # k)

RECURSIVE SumValues(_)
SumValues(d) == IF d = <<>> THEN 0 ELSE d[1].value + SumValues(Tail(d))

RECURSIVE Counter(_)
\* dict(Counter(outcomes)): occurrences per outcome, keys in first-seen order.
Counter(outs) ==
  IF outs = <<>> THEN <<>>
  ELSE LET before == Counter(SubSeq(outs, 1, Len(outs) - 1))
           last == outs[Len(outs)]
       IN  DictSet(before, last,
                   IF DictHas(before, last) THEN DictGet(before, last) + 1 ELSE 1)

\* ------------------------------------------------------ classical state
\* Mutant: the loop shifts the mask but leaves the value in place.
shift_mask_only(mask, value) == value

RECURSIVE shift_to_lsb(_, _)
\* while (mask & 0x1) == 0: mask >>= 1; value >>= 1
shift_to_lsb(mask, value) ==
  IF mask % 2 = 1 THEN value ELSE shift_to_lsb(mask \div 2, value \div 2)

\* The conditional clause of an instruction, tested on the classical state:
\* TRUE when the instruction is to be executed.
evaluate_conditional(state, mask, val) ==
  IF mask > 0
  THEN shift_to_lsb(mask, BitAnd(state, mask)) = val
  ELSE TRUE

NoConditional == [mask |-> None, val |-> None]
HasConditional(operation) == operation.conditional # NoConditional

\* FALSE when the instruction is skipped (the `continue` of the loop).
Passes(state, operation) ==
  IF HasConditional(operation)
  THEN evaluate_conditional(state, operation.conditional.mask,
                            operation.conditional.val)
  ELSE TRUE

\* Mutant: the measured bit is OR-ed in without clearing the bit first.
set_bit_without_clear(state, clbit, v) == BitOr(state, v * Pow2(clbit))

\* Mutant: the target bit is set whatever was measured.
set_bit_always(state, clbit, v) == BitOr(state, Pow2(clbit))

\* The classical state after a measure instruction stores bit v at clbit.
set_bit_from_measurement(state, clbit, v) ==
  BitOr(BitAndNot(state, Pow2(clbit)), v * Pow2(clbit))

\* Turn classical_state (int) into bit string
outcome_string(state, number_of_clbits) == zfill(ToBin(state), number_of_clbits)

\* -------------------------------------------------------- register layout
RECURSIVE get_register_specs_by_count(_)
\* Mutant: the size of a register is the number of pairs of its group.
get_register_specs_by_count(bit_labels) ==
  IF bit_labels = <<>> THEN <<>>
  ELSE LET before == get_register_specs_by_count(SubSeq(bit_labels, 1, Len(bit_labels) - 1))
           lab == bit_labels[Len(bit_labels)]
       IN  IF Len(bit_labels) > 1 /\ bit_labels[Len(bit_labels) - 1][1] = lab[1]
           THEN [before EXCEPT ![Len(before)] = [name |-> lab[1], size |-> @.size + 1]]
           ELSE Append(before, [name |-> lab[1], size |-> 1])

RECURSIVE get_register_specs(_)
\* groupby on consecutive equal names; each group yields (name, max index + 1).
get_register_specs(bit_labels) ==
  IF bit_labels = <<>> THEN <<>>
  ELSE LET before == get_register_specs(SubSeq(bit_labels, 1, Len(bit_labels) - 1))
           lab == bit_labels[Len(bit_labels)]
       IN  IF Len(bit_labels) > 1 /\ bit_labels[Len(bit_labels) - 1][1] = lab[1]
           THEN [before EXCEPT ![Len(before)] =
                   [name |-> lab[1], size |-> Max(@.size, lab[2] + 1)]]
           ELSE Append(before, [name |-> lab[1], size |-> lab[2] + 1])

RECURSIVE OrderedDict(_)
\* OrderedDict(pairs): a repeated name keeps its first position, last size.
OrderedDict(pairs) ==
  IF pairs = <<>> THEN <<>>
  ELSE DictSet(OrderedDict(SubSeq(pairs, 1, Len(pairs) - 1)),
               pairs[Len(pairs)].name, pairs[Len(pairs)].size)

\* The flattened register: number of qubits allocated for the circuit.
qureg_size(header) == SumValues(OrderedDict(get_register_specs(header.qubit_labels)))

\* cl_reg_nbits and cl_reg_index of run_circuit.
cl_reg_nbits(header) == [k \in 1..Len(header.clbit_labels) |-> header.clbit_labels[k][2]]
RECURSIVE SumTo(_, _)
SumTo(s, k) == IF k = 0 THEN 0 ELSE s[k] + SumTo(s, k - 1)
cl_reg_index(header) ==
  [k \in 1..Len(header.clbit_labels) |-> SumTo(cl_reg_nbits(header), k - 1)]

\* -------------------------------------------------------- result formatter
RECURSIVE new_key_appended(_, _, _, _)
\* Mutant: each later register is appended behind the earlier ones.
new_key_appended(key, index, nbits, k) ==
  IF k = 1
  THEN << PySlice(key, 0 - nbits[1], Len(key)) >>
  ELSE new_key_appended(key, index, nbits, k - 1)
       \o << PySlice(key, 0 - (index[k] + nbits[k]), 0 - index[k]) >>

RECURSIVE new_key(_, _, _, _)
\* The list built for one key once registers 1..k have been sliced out:
\* new_key.insert(0, ...) puts the later register in front.
new_key(key, index, nbits, k) ==
  IF k = 1
  THEN << PySlice(key, 0 - nbits[1], Len(key)) >>
  ELSE << PySlice(key, 0 - (index[k] + nbits[k]), 0 - index[k]) >>
       \o new_key(key, index, nbits, k - 1)

RECURSIVE join(_)
\* ' '.join(parts)
join(parts) ==
  IF parts = <<>> THEN <<>>
  ELSE IF Len(parts) = 1 THEN parts[1]
  ELSE parts[1] \o <<" ">> \o join(Tail(parts))

RECURSIVE format_result(_, _, _)
\* fcounts[' '.join(new_key)] = value, for the entries of counts in order.
format_result(counts, index, nbits) ==
  IF counts = <<>> THEN <<>>
  ELSE LET e == counts[Len(counts)]
       IN  DictSet(format_result(SubSeq(counts, 1, Len(counts) - 1), index, nbits),
                   join(new_key(e.key, index, nbits, Len(nbits))), e.value)

\* cl_reg_nbits[0] on an empty list, reached only when counts has an entry.
format_result_raises(counts, nbits) == counts # <<>> /\ nbits = <<>>

\* ------------------------------------------------------------ the kernel
\* One call issued to the ProjectQ engine: a gate, Measure, flush, cheat or
\* set_wavefunction.  arg is the angle of a rotation (units of pi/2), the bit a
\* Measure returned, and 0 otherwise.
Call(op, qubits, arg) == [op |-> op, qubits |-> qubits, arg |-> arg]

\* Simulator(rnd_seed=seed) / CppSim(seed): a fresh random stream.
CppSim(rnd_seed) == [seed |-> rnd_seed, draws |-> 0, qv |-> <<>>]

\* The n-th number of the stream seeded with rnd_seed, as the bit it decides.
Rnd(rnd_seed, n) == (rnd_seed \div Pow2(n % SeedBits)) % 2

allocate_qureg(s, size) == [s EXCEPT !.qv = [k \in 1..size |-> 0]]
set_wavefunction_ground(s) == [s EXCEPT !.qv = [k \in 1..Len(s.qv) |-> 0]]

Flip(v) == IF v = Superposed THEN Superposed ELSE 1 - v

\* The abstract qubit values after one gate call.
apply_gate(s, c) ==
  LET q == c.qubits[1] + 1
  IN  CASE c.op = "H" -> [s EXCEPT !.qv[q] = Superposed]
        [] c.op \in {"Rx", "Ry"} ->
             IF c.arg % 4 = 0 THEN s
             ELSE IF c.arg % 4 = 2 THEN [s EXCEPT !.qv[q] = Flip(@)]
             ELSE [s EXCEPT !.qv[q] = Superposed]
        [] c.op = "CX" ->
             LET t == c.qubits[2] + 1
             IN  IF s.qv[q] = 0 THEN s
                 ELSE IF s.qv[q] = 1 THEN [s EXCEPT !.qv[t] = Flip(@)]
                 ELSE [s EXCEPT !.qv[t] = Superposed]
        [] OTHER -> s

RECURSIVE apply_gates(_, _)
apply_gates(s, cs) ==
  IF cs = <<>> THEN s ELSE apply_gates(apply_gate(s, cs[1]), Tail(cs))

\* Measure | qubit; int(qubit): one number is drawn, the qubit collapses.
measure_bit(s, qubit) ==
  IF s.qv[qubit + 1] = Superposed THEN Rnd(s.seed, s.draws) ELSE s.qv[qubit + 1]
after_measure(s, qubit) ==
  [s EXCEPT !.draws = @ + 1, !.qv[qubit + 1] = measure_bit(s, qubit)]

RECURSIVE measure_all(_, _)
\* for ind in range(number_of_qubits): Measure | qureg[ind]
\* The pair <<kernel, calls>> after qubits 0..n-1 have been measured in turn.
measure_all(s, n) ==
  IF n = 0 THEN [sim |-> s, calls |-> <<>>]
  ELSE LET before == measure_all(s, n - 1)
       IN  [sim |-> after_measure(before.sim, n - 1),
            calls |-> Append(before.calls,
                             Call("Measure", <<n - 1>>, measure_bit(before.sim, n - 1)))]

\* The amplitude vector read by cheat(): what was applied to the register since
\* it was last in the ground state (flush and cheat do not change it).
RECURSIVE wavefunction(_)
wavefunction(cs) ==
  IF cs = <<>> THEN <<>>
  ELSE LET c == cs[Len(cs)]
           before == SubSeq(cs, 1, Len(cs) - 1)
       IN  IF c.op = "set_wavefunction" THEN <<>>
           ELSE IF c.op \in {"flush", "cheat"} THEN wavefunction(before)
           ELSE Append(wavefunction(before), c)

\* ------------------------------------------------------- the dispatch table
GateNames == {"U", "u3", "u1", "u2", "t", "h", "s", "CX", "cx", "id", "u0", "barrier"}

\* Mutant: the rotations of a unitary are issued in the order of its parameters.
gate_calls_in_parameter_order(operation) ==
  LET q == <<operation.qubits[1]>>
      params == operation.params
  IN  CASE operation.name \in {"U", "u3"} ->
             << Call("Ry", q, params[1]), Call("Rz", q, params[2]), Call("Rz", q, params[3]) >>
        [] operation.name = "u1" -> << Call("Rz", q, params[1]) >>
        [] operation.name = "u2" ->
             << Call("Rz", q, params[1] + 1), Call("Rx", q, 1), Call("Rz", q, params[2] - 1) >>
        [] operation.name = "t" -> << Call("T", q, 0) >>
        [] operation.name = "h" -> << Call("H", q, 0) >>
        [] operation.name = "s" -> << Call("S", q, 0) >>
        [] operation.name \in {"CX", "cx"} ->
             << Call("CX", <<operation.qubits[1], operation.qubits[2]>>, 0) >>
        [] OTHER -> <<>>

\* The kernel calls of a gate instruction, in the order they are issued.
gate_calls(operation) ==
  LET q == <<operation.qubits[1]>>
      params == operation.params
  IN  CASE operation.name \in {"U", "u3"} ->
             << Call("Rz", q, params[3]), Call("Ry", q, params[1]), Call("Rz", q, params[2]) >>
        [] operation.name = "u1" -> << Call("Rz", q, params[1]) >>
        [] operation.name = "u2" ->
             << Call("Rz", q, params[2] - 1), Call("Rx", q, 1), Call("Rz", q, params[1] + 1) >>
        [] operation.name = "t" -> << Call("T", q, 0) >>
        [] operation.name = "h" -> << Call("H", q, 0) >>
        [] operation.name = "s" -> << Call("S", q, 0) >>
        [] operation.name \in {"CX", "cx"} ->
             << Call("CX", <<operation.qubits[1], operation.qubits[2]>>, 0) >>
        [] OTHER -> <<>>

\* Mutant: a snapshot replaces what the label held.
snapshot_store_overwrite(snaps, location, statevector) ==
  DictSet(snaps, location, <<statevector>>)

\* snapshots[location]['statevector'].append(statevector), or a new entry.
snapshot_store(snaps, location, statevector) ==
  IF DictHas(snaps, location)
  THEN DictSet(snaps, location, Append(DictGet(snaps, location), statevector))
  ELSE DictSet(snaps, location, <<statevector>>)

\* ------------------------------------------------------------- the state
VARIABLES
  backend,          \* "qasm": QasmSimulatorProjectQ, "statevector": the subclass
  qobj,             \* the job object the caller handed to run()
  submitted,        \* history: qobj as it was when the caller handed it over
  pc,               \* where _run_job stands
  seed,             \* self._seed
  shots,            \* self._shots
  classical_state,  \* self._classical_state
  sim,              \* the Simulator backend of this job (sim._simulator)
  calls,            \* history: kernel calls of the current shot, in order
  ci,               \* index of the circuit being run (for circuit in experiments)
  i,                \* the shot counter of run_circuit
  ip,               \* index of the instruction to dispatch next
  outcomes,         \* outcomes of run_circuit
  snapshots,        \* snapshots of run_circuit
  measured,         \* history: the measure instructions executed in this shot
  result_list,      \* result_list of _run_job
  result,           \* what the caller gets: a Result, or the exception raised
  prev,             \* history: the job run before this one and its result
  runs              \* history: number of jobs handed to this backend object

vars == << backend, qobj, submitted, pc, seed, shots, classical_state, sim, calls,
           ci, i, ip, outcomes, snapshots, measured, result_list, result, prev, runs >>

Seeds == 0 .. (Pow2(SeedBits) - 1)

NoConfig == [present |-> FALSE, seed |-> None, shots |-> None]
Config(sd, sh) == [present |-> TRUE, seed |-> sd, shots |-> sh]

Op(name, qubits, clbits, params, conditional) ==
  [name |-> name, qubits |-> qubits, clbits |-> clbits, params |-> params,
   conditional |-> conditional]

\* Mutant: the error carries the result records collected so far.
RaisedWithRecords(kind, message) ==
  [kind |-> kind, message |-> message, results |-> result_list]

NoResult == [kind |-> "none", message |-> <<>>, results |-> <<>>]
Raised(kind, message) == [kind |-> kind, message |-> message, results |-> <<>>]
NoPrev == [qobj |-> <<>>, result |-> NoResult]

BackendName ==
  IF backend = "statevector" THEN "projectq_statevector_simulator"
  ELSE "projectq_qasm_simulator"

Circuit == qobj.experiments[ci]

\* --------------------------------------- statevector variant: validation
\* Mutant: shots is set to 1 only where no config existed.
set_shots_when_missing(config) ==
  IF config.present THEN config ELSE [present |-> TRUE, seed |-> None, shots |-> 1]

\* _set_shots_to_1: a missing config is created, shots is set to 1.
set_shots_to_1(config) ==
  [present |-> TRUE, seed |-> IF config.present THEN config.seed ELSE None, shots |-> 1]

\* Mutant: validation looks for measure only.
rejected_for_measure_only(circuit) ==
  \E k \in 1..Len(circuit.instructions) : circuit.instructions[k].name = "measure"

\* A circuit _validate raises on: it holds a measure or a reset.
rejected_by_validate(circuit) ==
  \E k \in 1..Len(circuit.instructions) :
     circuit.instructions[k].name \in {"measure", "reset"}

\* Index of the first circuit _validate raises on, 0 when it raises on none.
first_rejected(q) ==
  IF \E k \in 1..Len(q.experiments) : rejected_by_validate(q.experiments[k])
  THEN CHOOSE k \in 1..Len(q.experiments) :
         /\ rejected_by_validate(q.experiments[k])
         /\ \A j \in 1..(k - 1) : ~rejected_by_validate(q.experiments[j])
  ELSE 0

\* StatevectorSimulatorProjectQ._validate: the job object as it leaves it.
sv_validate(q) ==
  LET bad == first_rejected(q)
  IN  [q EXCEPT !.config = set_shots_to_1(@),
                !.experiments =
                   [k \in 1..Len(q.experiments) |->
                      IF bad = 0 \/ k <= bad
                      THEN [q.experiments[k] EXCEPT !.config = set_shots_to_1(@)]
                      ELSE q.experiments[k]]]

\* Add final snapshots to circuits
append_final_snapshot(q) ==
  [q EXCEPT !.experiments =
     [k \in 1..Len(q.experiments) |->
        [q.experiments[k] EXCEPT !.instructions =
           Append(@, Op("snapshot", <<>>, <<>>, <<FinalStateKey>>, NoConditional))]]]

\* The job object when the circuits start to run, per backend.
validated(q) ==
  IF backend = "statevector"
  THEN IF first_rejected(q) # 0 THEN sv_validate(q)
       ELSE sv_validate(append_final_snapshot(sv_validate(q)))
  ELSE q

\* ------------------------------------ statevector variant: post-processing
\* Extract final state snapshot and move to 'statevector' data field.
extract_statevector(res) ==
  LET snaps == res.data.snapshots
      key == ToString(FinalStateKey)
      final_state == DictGet(snaps, key)
      rest == DictPop(snaps, key)
  IN  [res EXCEPT !.data.has_statevector = TRUE,
                  !.data.statevector = final_state[1],
                  !.data.snapshots = rest,
                  !.data.has_snapshots = (rest # <<>>)]

\* res.data['snapshots'] without a store, or pop(...) returning None.
extract_raises(res) ==
  ~res.data.has_snapshots \/ ~DictHas(res.data.snapshots, ToString(FinalStateKey))

\* ------------------------------------------------------------ the actions
\* _run_job up to the circuit loop: validation (and, in the statevector variant,
\* the appended snapshots), self._seed, self._shots and the Simulator.
RunJob ==
  /\ pc = "submitted"
  /\ qobj' = validated(qobj)
  /\ IF backend = "statevector" /\ first_rejected(qobj) # 0
     THEN /\ result' = Raised("SimulatorError",
                              << "In circuit",
                                 qobj.experiments[first_rejected(qobj)].header.name,
                                 "statevector simulator does not support measure or reset" >>)
          /\ pc' = "error"
          /\ UNCHANGED << seed, shots, sim, ci, result_list >>
     ELSE \E rnd \in (IF qobj.config.seed = None THEN Seeds ELSE {qobj.config.seed}) :
            /\ seed' = rnd
            /\ shots' = qobj'.config.shots
            /\ sim' = CppSim(rnd)
            /\ result_list' = <<>>
            /\ ci' = 1
            /\ pc' = "circuit"
            /\ UNCHANGED result
  /\ UNCHANGED << backend, submitted, classical_state, calls, i, ip, outcomes,
                  snapshots, measured, prev, runs >>

\* run_circuit up to the shot loop.
RunCircuitInit ==
  /\ pc = "circuit"
  /\ ci <= Len(qobj.experiments)
  /\ classical_state' = 0
  /\ sim' = allocate_qureg(
              IF Circuit.config.present /\ Circuit.config.seed # None
                 /\ Circuit.config.seed # 0
              THEN CppSim(Circuit.config.seed)
              ELSE sim,
              qureg_size(Circuit.header))
  /\ outcomes' = <<>>
  /\ snapshots' = <<>>
  /\ calls' = <<>>
  /\ measured' = <<>>
  /\ i' = 0
  /\ pc' = "shot"
  /\ UNCHANGED << backend, qobj, submitted, seed, shots, ci, ip, result_list, result,
                  prev, runs >>

\* if self._shots > 1: ground_state = np.zeros(...); ground_state[0] = 1
ground_state_built == shots > 1

\* Mutant: the head of a later shot flushes but injects no ground state.
ShotStartWithoutInjection ==
  /\ pc = "shot"
  /\ i < shots
  /\ classical_state' = 0
  /\ measured' = <<>>
  /\ IF i > 0
     THEN calls' = << Call("flush", <<>>, 0) >>
     ELSE calls' = <<>>
  /\ ip' = 1
  /\ pc' = "instr"
  /\ UNCHANGED << backend, qobj, submitted, seed, shots, sim, ci, i, outcomes, snapshots,
                  result_list, result, prev, runs >>

\* Mutant: the head of a shot leaves the classical state as the last shot left it.
ShotStartKeepsState ==
  /\ pc = "shot"
  /\ i < shots
  /\ measured' = <<>>
  /\ IF i > 0
     THEN /\ calls' = << Call("flush", <<>>, 0), Call("set_wavefunction", <<>>, 0) >>
          /\ sim' = set_wavefunction_ground(sim)
     ELSE /\ calls' = <<>>
          /\ sim' = sim
  /\ ip' = 1
  /\ pc' = "instr"
  /\ UNCHANGED << backend, qobj, submitted, seed, shots, classical_state, ci, i, outcomes,
                  snapshots, result_list, result, prev, runs >>

\* The head of one iteration of `for i in range(self._shots)`.
ShotStart ==
  /\ pc = "shot"
  /\ i < shots
  /\ classical_state' = 0
  /\ measured' = <<>>
  /\ IF i > 0
     THEN /\ calls' = << Call("flush", <<>>, 0), Call("set_wavefunction", <<>>, 0) >>
          /\ sim' = set_wavefunction_ground(sim)
     ELSE /\ calls' = <<>>
          /\ sim' = sim
  /\ ip' = 1
  /\ pc' = "instr"
  /\ UNCHANGED << backend, qobj, submitted, seed, shots, ci, i, outcomes, snapshots,
                  result_list, result, prev, runs >>

\* One iteration of `for operation in circuit.instructions`.
Dispatch ==
  /\ pc = "instr"
  /\ ip <= Len(Circuit.instructions)
  /\ LET operation == Circuit.instructions[ip]
     IN  IF ~Passes(classical_state, operation)
         THEN /\ ip' = ip + 1
              /\ UNCHANGED << pc, classical_state, sim, calls, snapshots, measured,
                              result, result_list, outcomes >>
         ELSE CASE operation.name \in GateNames ->
                     /\ sim' = apply_gates(sim, gate_calls(operation))
                     /\ calls' = calls \o gate_calls(operation)
                     /\ ip' = ip + 1
                     /\ UNCHANGED << pc, classical_state, snapshots, measured, result,
                                     result_list, outcomes >>
                [] operation.name = "measure" ->
                     LET qubit == operation.qubits[1]
                         clbit == operation.clbits[1]
                         bit == measure_bit(sim, qubit)
                     IN  /\ sim' = after_measure(sim, qubit)
                         /\ calls' = Append(calls, Call("Measure", <<qubit>>, bit))
                         /\ classical_state' =
                              set_bit_from_measurement(classical_state, clbit, bit)
                         /\ measured' = Append(measured, [clbit |-> clbit, bit |-> bit])
                         /\ ip' = ip + 1
                         /\ UNCHANGED << pc, snapshots, result, result_list, outcomes >>
                [] operation.name = "reset" ->
                     /\ result' = Raised("SimulatorError",
                                         << "Reset operation not yet implemented" >>)
                     /\ pc' = "error"
                     /\ result_list' = <<>>
                     /\ outcomes' = <<>>
                     /\ snapshots' = <<>>
                     /\ UNCHANGED << classical_state, sim, calls, measured, ip >>
                [] operation.name = "snapshot" ->
                     /\ calls' = calls \o << Call("flush", <<>>, 0), Call("cheat", <<>>, 0) >>
                     /\ snapshots' = snapshot_store(snapshots, ToString(operation.params[1]),
                                                    wavefunction(calls))
                     /\ ip' = ip + 1
                     /\ UNCHANGED << pc, classical_state, sim, measured, result,
                                     result_list, outcomes >>
                [] OTHER ->
                     /\ result' = Raised("SimulatorError",
                                         << BackendName, "encountered unrecognized operation",
                                            operation.name >>)
                     /\ pc' = "error"
                     /\ result_list' = <<>>
                     /\ outcomes' = <<>>
                     /\ snapshots' = <<>>
                     /\ UNCHANGED << classical_state, sim, calls, measured, ip >>
  /\ UNCHANGED << backend, qobj, submitted, seed, shots, ci, i, prev, runs >>

\* Mutant: the terminal measurement of qubit 0 is stored in classical bit 0.
ShotEndStoresQubit ==
  /\ pc = "instr"
  /\ ip > Len(Circuit.instructions)
  /\ LET m == measure_all(sim, Circuit.header.number_of_qubits)
     IN  /\ sim' = m.sim
         /\ calls' = calls \o m.calls \o << Call("flush", <<>>, 0) >>
         /\ classical_state' = set_bit_from_measurement(classical_state, 0, m.sim.qv[1])
  /\ outcomes' = Append(outcomes,
                        outcome_string(classical_state', Circuit.header.number_of_clbits))
  /\ i' = i + 1
  /\ pc' = "shot"
  /\ UNCHANGED << backend, qobj, submitted, seed, shots, ci, ip,
                  snapshots, measured, result_list, result, prev, runs >>

\* The tail of one shot: every qubit is measured, the engine is flushed and the
\* classical state is recorded as the shot's outcome.
ShotEnd ==
  /\ pc = "instr"
  /\ ip > Len(Circuit.instructions)
  /\ LET m == measure_all(sim, Circuit.header.number_of_qubits)
     IN  /\ sim' = m.sim
         /\ calls' = calls \o m.calls \o << Call("flush", <<>>, 0) >>
  /\ outcomes' = Append(outcomes,
                        outcome_string(classical_state, Circuit.header.number_of_clbits))
  /\ i' = i + 1
  /\ pc' = "shot"
  /\ UNCHANGED << backend, qobj, submitted, seed, shots, classical_state, ci, ip,
                  snapshots, measured, result_list, result, prev, runs >>

\* The result record run_circuit returns.
circuit_result ==
  [name |-> Circuit.header.name,
   seed |-> seed,
   shots |-> shots,
   data |-> [counts |-> format_result(Counter(outcomes), cl_reg_index(Circuit.header),
                                      cl_reg_nbits(Circuit.header)),
             has_snapshots |-> (snapshots # <<>>),
             snapshots |-> snapshots,
             has_classical_state |-> (shots = 1),
             classical_state |-> IF shots = 1 THEN classical_state ELSE None,
             has_statevector |-> FALSE,
             statevector |-> <<>>],
   status |-> "DONE",
   success |-> TRUE]

\* run_circuit after the shot loop, and result_list.append of _run_job.
FinishCircuit ==
  /\ pc = "shot"
  /\ i >= shots
  /\ IF format_result_raises(Counter(outcomes), cl_reg_nbits(Circuit.header))
     THEN /\ result' = Raised("IndexError", << "list index out of range" >>)
          /\ pc' = "error"
          /\ result_list' = <<>>
          /\ UNCHANGED ci
     ELSE /\ result_list' = Append(result_list, circuit_result)
          /\ ci' = ci + 1
          /\ pc' = "circuit"
          /\ UNCHANGED result
  /\ outcomes' = <<>>
  /\ snapshots' = <<>>
  /\ UNCHANGED << backend, qobj, submitted, seed, shots, classical_state, sim, calls,
                  i, ip, measured, prev, runs >>

\* _run_job after the circuit loop; the statevector variant then moves the final
\* snapshot of every result into its 'statevector' field.
FinishJob ==
  /\ pc = "circuit"
  /\ ci > Len(qobj.experiments)
  /\ IF backend = "statevector"
     THEN IF \E k \in 1..Len(result_list) : extract_raises(result_list[k])
          THEN /\ result' = Raised("KeyError", << "snapshots" >>)
               /\ pc' = "error"
          ELSE /\ result' = [kind |-> "Result", message |-> << "COMPLETED" >>,
                             results |-> [k \in 1..Len(result_list) |->
                                            extract_statevector(result_list[k])]]
               /\ pc' = "done"
     ELSE /\ result' = [kind |-> "Result", message |-> << "COMPLETED" >>,
                        results |-> result_list]
          /\ pc' = "done"
  /\ result_list' = <<>>
  /\ UNCHANGED << backend, qobj, submitted, seed, shots, classical_state, sim, calls,
                  ci, i, ip, outcomes, snapshots, measured, prev, runs >>

\* The caller hands a job to the same backend object again: the job object it
\* already ran, or the job it first supplied without the seed override of its
\* first circuit.
without_first_seed(q) == [q EXCEPT !.experiments[1].config = NoConfig]

Resubmit ==
  /\ pc \in {"done", "error"}
  /\ runs < MaxRuns
  /\ \E q \in {qobj, without_first_seed(submitted)} :
       /\ qobj' = q
       /\ submitted' = q
  /\ prev' = [qobj |-> submitted, result |-> result]
  /\ result' = NoResult
  /\ pc' = "submitted"
  /\ runs' = runs + 1
  /\ UNCHANGED << backend, seed, shots, classical_state, sim, calls, ci, i, ip,
                  outcomes, snapshots, measured, result_list >>

\* ------------------------------------------------------------- the inputs
\* Sequences over S of length lo..hi.
Seqs(S, lo, hi) == UNION { [1..n -> S] : n \in lo..hi }

\* A header with nq qubits in one register "q" and classical registers of the
\* given sizes, its number_of_clbits their sum.
Header(name, nq, clsizes) ==
  [name |-> name,
   number_of_qubits |-> nq,
   number_of_clbits |-> SumTo(clsizes, Len(clsizes)),
   qubit_labels |-> [k \in 1..nq |-> << "q", k - 1 >>],
   clbit_labels |-> [k \in 1..Len(clsizes) |-> << "c" \o ToString(k), clsizes[k] >>]]

Experiment(name, nq, clsizes, instructions, config) ==
  [header |-> Header(name, nq, clsizes), instructions |-> instructions, config |-> config]

Qobj(config, experiments) == [config |-> config, experiments |-> experiments]

H(q) == Op("h", <<q>>, <<>>, <<>>, NoConditional)
Measure(q, c) == Op("measure", <<q>>, <<c>>, <<>>, NoConditional)
Conditional(operation, mask, val) ==
  [operation EXCEPT !.conditional = [mask |-> mask, val |-> val]]

\* Measurement circuits: qubit 0 put in superposition, then measure
\* instructions on either qubit into any classical bit up to one past the
\* declared width.
MeasureOps == { Measure(q, c) : q \in 0..1, c \in 0..2 }
MeasureCircuits ==
  { << H(0) >> \o ms : ms \in Seqs(MeasureOps, 1, MaxInstr - 1) }
MeasureJobs ==
  { Qobj(Config(None, sh), << Experiment("circuit0", 2, cl, c, NoConfig) >>) :
      sh \in 0..MaxShots, cl \in { <<2>>, <<1, 1>> }, c \in MeasureCircuits }

\* Conditional circuits: the classical state is first set to s by measuring
\* qubit 0, flipped to 1, into the bits of s; one instruction follows that
\* carries a conditional clause.  Job seed fixed, one shot.
U3(q, theta, phi, lam) == Op("u3", <<q>>, <<>>, << theta, phi, lam >>, NoConditional)
Snapshot(label) == Op("snapshot", <<>>, <<>>, << label >>, NoConditional)
Reset(q) == Op("reset", <<q>>, <<>>, <<>>, NoConditional)
Barrier(q) == Op("barrier", <<q>>, <<>>, <<>>, NoConditional)
Unrecognized(q) == Op("swap", <<q>>, <<>>, <<>>, NoConditional)

RECURSIVE MeasureInto(_, _)
\* Measure instructions of qubit 0 into the bits of s from bit c upwards.
MeasureInto(s, c) ==
  IF s = 0 THEN <<>>
  ELSE (IF s % 2 = 1 THEN << Measure(0, c) >> ELSE <<>>) \o MeasureInto(s \div 2, c + 1)
Prepare(s) == IF s = 0 THEN <<>> ELSE << U3(0, 2, 0, 2) >> \o MeasureInto(s, 0)

CondValues == 0 .. (Pow2(CondBits) - 1)
CondOps == { H(0), Measure(0, 0), Snapshot(1), Barrier(0), Reset(0), Unrecognized(0) }
CondJobs ==
  { Qobj(Config(0, 1),
         << Experiment("circuit0", 1, << CondBits >>,
                       Prepare(s) \o << Conditional(o, mask, val) >>, NoConfig) >>) :
      s \in CondValues, mask \in CondValues, val \in CondValues, o \in CondOps }

\* Failing circuits: short circuits over a gate, a measurement, a reset and an
\* unrecognized operation, run alone, after a sound circuit or before one.
SoundCircuit(name) == Experiment(name, 1, <<1>>, << H(0), Measure(0, 0) >>, NoConfig)
ErrorOps == { H(0), Measure(0, 0), Reset(0), Unrecognized(0) }
ErrorCircuits == Seqs(ErrorOps, 1, MaxInstr - 1)
ErrorJobs ==
  { Qobj(Config(1, sh), exps) :
      sh \in 1..MaxShots,
      exps \in UNION { { << Experiment("circuit0", 1, <<1>>, c, NoConfig) >>,
                         << SoundCircuit("circuit0"),
                            Experiment("circuit1", 1, <<1>>, c, NoConfig) >>,
                         << Experiment("circuit0", 1, <<1>>, c, NoConfig),
                            SoundCircuit("circuit1") >> } : c \in ErrorCircuits } }

\* Seeded jobs: one or two copies of the circuit "H, measure", the job seed
\* absent or fixed, the first circuit with or without a seed of its own.
SeedJobs ==
  { Qobj(Config(js, 1), exps) :
      js \in {None, 1},
      exps \in UNION { { << Experiment("circuit0", 1, <<1>>, << H(0), Measure(0, 0) >>, cfg) >>,
                         << Experiment("circuit0", 1, <<1>>, << H(0), Measure(0, 0) >>, cfg),
                            SoundCircuit("circuit1") >> } :
                       cfg \in {NoConfig, Config(0, None), Config(2, None)} } }

\* Statevector jobs: circuits over a gate, snapshots (one under the reserved
\* label), a measurement and a reset, with or without classical register, any
\* requested shot counts; alone or followed by a one-instruction circuit.
StatevectorOps == { H(0), Snapshot(1), Snapshot(FinalStateKey), Measure(0, 0), Reset(0) }
StatevectorJobs ==
  { Qobj(Config(0, sh), exps) :
      sh \in {None, 1, 3},
      exps \in UNION { { << Experiment("circuit0", 1, cl, c, cfg) >> } \cup
                       { << Experiment("circuit0", 1, cl, c, cfg),
                            Experiment("circuit1", 1, <<1>>, << o >>, NoConfig) >> :
                           o \in StatevectorOps } :
                       c \in Seqs(StatevectorOps, 1, MaxInstr - 1),
                       cl \in { <<1>>, <<>> },
                       cfg \in {NoConfig, Config(None, 2), Config(1, None)} } }

\* Register jobs: one flipped or superposed qubit measured into two classical
\* bits of a layout of one to three classical registers of one or two bits.
Id(q) == Op("id", <<q>>, <<>>, <<>>, NoConditional)
RegisterSizes == Seqs(1..2, 1, 3)
FormatJobs ==
  { Qobj(Config(1, sh),
         << Experiment("circuit0", 1, cl,
                       << prep, Measure(0, a), Measure(0, b) >>, NoConfig) >>) :
      sh \in 1..2, prep \in { H(0), U3(0, 2, 0, 2) },
      a \in 0..3, b \in 0..3,
      cl \in { sizes \in RegisterSizes : SumTo(sizes, Len(sizes)) = 4 } }

\* Layout jobs: the qubit labels are any list of up to three (name, index)
\* pairs over two register names, on contiguous runs or not.
BitLabels == Seqs({ << n, k >> : n \in {"c", "d"}, k \in 0..1 }, 1, 3)
LayoutJobs ==
  { Qobj(Config(0, 1),
         << [ header |-> [ Header("circuit0", 1, <<1>>) EXCEPT !.qubit_labels = labels ],
              instructions |-> << H(0) >>,
              config |-> NoConfig ] >>) :
      labels \in BitLabels }

\* Jobs whose circuit carries a shot count of its own.
ShotsJobs ==
  { Qobj(Config(1, js),
         << Experiment("circuit0", 1, <<1>>, << H(0), Measure(0, 0) >>, Config(None, cs)) >>) :
      js \in 1..MaxShots, cs \in 0..MaxShots }

\* Mixed circuits: gates, identity, barrier, snapshots under two labels, one of
\* them conditional on classical bit 0, and a measurement, over several shots.
MixedOps ==
  { H(0), Id(0), Barrier(0), Snapshot(1), Snapshot(2),
    Conditional(Snapshot(1), 1, 1), Measure(0, 0) }
MixedJobs ==
  { Qobj(Config(js, sh), << Experiment("circuit0", 1, <<1>>, c, NoConfig) >>) :
      js \in {1, 2}, sh \in 1..MaxShots, c \in Seqs(MixedOps, 1, MaxInstr) }

\* Gate circuits: every gate kind of the dispatch table on either qubit of a
\* two-qubit register, the unitaries with pairwise different angles.
Ugate(q, theta, phi, lam) == Op("U", <<q>>, <<>>, << theta, phi, lam >>, NoConditional)
U2(q, phi, lam) == Op("u2", <<q>>, <<>>, << phi, lam >>, NoConditional)
U1(q, lam) == Op("u1", <<q>>, <<>>, << lam >>, NoConditional)
Tgate(q) == Op("t", <<q>>, <<>>, <<>>, NoConditional)
Sgate(q) == Op("s", <<q>>, <<>>, <<>>, NoConditional)
U0(q) == Op("u0", <<q>>, <<>>, <<>>, NoConditional)
CX(control, target) == Op("CX", << control, target >>, <<>>, <<>>, NoConditional)
Cx(control, target) == Op("cx", << control, target >>, <<>>, <<>>, NoConditional)
DispatchOps ==
  UNION { { Ugate(q, 1, 2, 3), U3(q, 1, 2, 3), U2(q, 1, 2), U1(q, 3), Tgate(q), Sgate(q),
            H(q), Id(q), U0(q), Barrier(q), CX(q, 1 - q), Cx(q, 1 - q) } : q \in 0..1 }
DispatchJobs ==
  { Qobj(Config(0, 1), << Experiment("circuit0", 2, <<1>>, c, NoConfig) >>) :
      c \in Seqs(DispatchOps, 1, MaxInstr - 1) }

Jobs ==
  MeasureJobs \cup CondJobs \cup ErrorJobs \cup SeedJobs \cup FormatJobs \cup LayoutJobs
    \cup ShotsJobs \cup MixedJobs \cup DispatchJobs

InitOf(jobs, backends) ==
  /\ backend \in backends
  /\ qobj \in jobs
  /\ submitted = qobj
  /\ pc = "submitted"
  /\ seed = None
  /\ shots = 0
  /\ classical_state = 0
  /\ sim = CppSim(0)
  /\ calls = <<>>
  /\ ci = 1
  /\ i = 0
  /\ ip = 1
  /\ outcomes = <<>>
  /\ snapshots = <<>>
  /\ measured = <<>>
  /\ result_list = <<>>
  /\ result = NoResult
  /\ prev = NoPrev
  /\ runs = 1

Init ==
  \/ InitOf(Jobs, {"qasm"})
  \/ InitOf(StatevectorJobs, {"statevector"})

\* Jobs that the caller hands over more than once.
InitRerun == InitOf(SeedJobs, {"qasm"})

Next ==
  \/ RunJob
  \/ RunCircuitInit
  \/ ShotStart
  \/ Dispatch
  \/ ShotEnd
  \/ FinishCircuit
  \/ FinishJob

Spec == Init /\ [][Next]_vars

NextRerun ==
  \/ Next
  \/ Resubmit

SpecRerun == InitRerun /\ [][NextRerun]_vars

\* ============================================================== the claims
\* The result records the caller or _run_job holds at this point, each with the
\* circuit it belongs to.
Records == IF result.kind = "Result" THEN result.results ELSE result_list

\* Every measure instruction of the circuit targets a declared classical bit.
MeasuresInRange(circuit) ==
  \A k \in 1..Len(circuit.instructions) :
     circuit.instructions[k].name = "measure"
       => circuit.instructions[k].clbits[1] < circuit.header.number_of_clbits

NoConditionals(circuit) ==
  \A k \in 1..Len(circuit.instructions) : ~HasConditional(circuit.instructions[k])

InCircuit == pc \in {"shot", "instr"}

\* C1 (as stated): one outcome is recorded per shot, and the values of every
\* returned (formatted) counts histogram sum to the shot count.
C1_CountsSumToShots ==
  /\ InCircuit => Len(outcomes) = i
  /\ \A k \in 1..Len(Records) : SumValues(Records[k].data.counts) = Records[k].shots

\* The part of C1 the code keeps: one outcome is recorded per shot, and for
\* every circuit whose measure instructions all target a classical bit below
\* number_of_clbits the values of the returned counts histogram sum to the
\* shot count.
C1_CountsSumToShotsInRange ==
  /\ InCircuit => Len(outcomes) = i /\ i <= shots
  /\ \A k \in 1..Len(Records) :
       /\ Records[k].shots = shots
       /\ MeasuresInRange(qobj.experiments[k])
            => SumValues(Records[k].data.counts) = Records[k].shots

\* A two-shot run over two classical registers that ended with two different
\* outcomes, the keys holding the register-boundary space.
C1_Witness ==
  /\ pc = "done"
  /\ backend = "qasm"
  /\ MeasuresInRange(qobj.experiments[1])
  /\ Len(qobj.experiments[1].header.clbit_labels) = 2
  /\ result.results[1].shots = 2
  /\ Len(result.results[1].data.counts) = 2
  /\ \A n \in 1..2 : Len(result.results[1].data.counts[n].key) = 3

\* The classical bits and values a sequence of executed measurements leaves,
\* replayed from state 0.
RECURSIVE Replay(_)
Replay(ms) ==
  IF ms = <<>> THEN 0
  ELSE set_bit_from_measurement(Replay(SubSeq(ms, 1, Len(ms) - 1)),
                                ms[Len(ms)].clbit, ms[Len(ms)].bit)

RECURSIVE OrOfAll(_)
\* The bitwise OR of every measured bit shifted to its classical bit.
OrOfAll(ms) ==
  IF ms = <<>> THEN 0
  ELSE BitOr(OrOfAll(SubSeq(ms, 1, Len(ms) - 1)),
             ms[Len(ms)].bit * Pow2(ms[Len(ms)].clbit))

\* The measurements that are the last one into their classical bit.
LastPerBit(ms) ==
  SelectSeq([k \in 1..Len(ms) |-> [clbit |-> ms[k].clbit, bit |-> ms[k].bit, at |-> k]],
            LAMBDA m : \A j \in (m.at + 1)..Len(ms) : ms[j].clbit # m.clbit)

\* The clbits of the measure instructions of a circuit, in order.
MeasureTargets(circuit) ==
  LET ms == SelectSeq(circuit.instructions, LAMBDA o : o.name = "measure")
  IN  [k \in 1..Len(ms) |-> ms[k].clbits[1]]

ShotOver == pc = "instr" /\ ip > Len(Circuit.instructions)

Orderings(n) == { p \in [1..n -> 1..n] : \A a, b \in 1..n : a # b => p[a] # p[b] }

\* p keeps the order of the measurements that share a classical bit.
KeepsOverlapping(ms, p) ==
  \A a, b \in 1..Len(ms) : a < b /\ ms[p[a]].clbit = ms[p[b]].clbit => p[a] < p[b]

\* C4 (as stated): with no conditional clauses, the classical state at the end
\* of a shot is the OR over all measure instructions of the measured bit shifted
\* to the target classical bit.
C4_FinalStateIsOrOfAll ==
  ShotOver /\ NoConditionals(Circuit)
    => /\ [k \in 1..Len(measured) |-> measured[k].clbit] = MeasureTargets(Circuit)
       /\ classical_state = OrOfAll(measured)

\* C4 (amended): with no conditional clauses, the classical state at the end of
\* a shot is the OR, over the classical bits measured into, of the bit measured
\* by the last measure instruction into that classical bit, shifted to it; and
\* permuting the measurements in any way that keeps the order of those sharing a
\* classical bit gives the same value.
C4_FinalStateIsOrOfLast ==
  ShotOver /\ NoConditionals(Circuit)
    => /\ [k \in 1..Len(measured) |-> measured[k].clbit] = MeasureTargets(Circuit)
       /\ classical_state = OrOfAll(LastPerBit(measured))
       /\ \A p \in Orderings(Len(measured)) :
            KeepsOverlapping(measured, p)
              => Replay([k \in 1..Len(measured) |-> measured[p[k]]]) = classical_state

\* A shot ended after a 1 and then a 0 were measured into the same classical bit.
C4_Witness ==
  /\ ShotOver
  /\ NoConditionals(Circuit)
  /\ \E a, b \in 1..Len(measured) :
       /\ a < b
       /\ measured[a].clbit = measured[b].clbit
       /\ measured[a].bit = 1
       /\ measured[b].bit = 0

\* The number of trailing zero bits of a mask > 0.
TrailingZeros(mask) == CHOOSE n \in 0..mask : mask % Pow2(n + 1) # 0 /\ mask % Pow2(n) = 0

\* The predicate as the specification words it.
MaskedField(state, mask, val) ==
  mask = 0 \/ BitAnd(state, mask) \div Pow2(TrailingZeros(mask)) = val

\* The step dispatches an instruction that carries a conditional clause and is
\* no identity or barrier (whose execution issues no call).
DispatchesConditional ==
  /\ pc = "instr"
  /\ ip <= Len(Circuit.instructions)
  /\ HasConditional(Circuit.instructions[ip])
  /\ Circuit.instructions[ip].name \notin {"id", "u0", "barrier"}

\* C3: an instruction with clause (mask, expected) is executed on classical
\* state s exactly when mask = 0 or ((s AND mask) >> trailing zeros of mask) =
\* expected; an executed instruction issues a kernel call or raises its error,
\* a skipped one does neither.  Classical bits outside the mask do not matter.
C3_ConditionalIsMaskedField ==
  [][ DispatchesConditional =>
        LET c == Circuit.instructions[ip].conditional
        IN  /\ (calls' # calls \/ pc' = "error") <=> MaskedField(classical_state, c.mask, c.val)
            /\ \A s \in CondValues :
                 BitAnd(s, c.mask) = BitAnd(classical_state, c.mask)
                   => (evaluate_conditional(s, c.mask, c.val)
                         <=> evaluate_conditional(classical_state, c.mask, c.val)) ]_vars

\* The specification's example has run: mask 0b0110, classical state 0b0100,
\* expected 0b10, and the H gate it guards was issued.
C3_Witness ==
  /\ pc = "instr"
  /\ ip > 1
  /\ ip = Len(Circuit.instructions) + 1
  /\ Circuit.instructions[ip - 1].conditional = [mask |-> 6, val |-> 2]
  /\ Circuit.instructions[ip - 1].name = "h"
  /\ classical_state = 4
  /\ calls # <<>>
  /\ calls[Len(calls)].op = "H"

HasOp(circuit, names) ==
  \E k \in 1..Len(circuit.instructions) : circuit.instructions[k].name \in names

\* C2 (as stated): a circuit that contains a reset instruction never gets a
\* result record, wherever the reset stands and whatever else the circuit holds.
C2_ResetAlwaysFails ==
  \A k \in 1..Len(submitted.experiments) :
     HasOp(submitted.experiments[k], {"reset"}) => Len(Records) < k

\* C5: in the statevector variant a job with a measure or reset instruction in
\* any circuit is rejected in validation with an error: no kernel call is
\* issued, no circuit is started and no result record exists.
C5_MeasureResetRejected ==
  backend = "statevector"
    /\ (\E k \in 1..Len(submitted.experiments) :
          HasOp(submitted.experiments[k], {"measure", "reset"}))
    => /\ pc \in {"submitted", "error"}
       /\ calls = <<>>
       /\ outcomes = <<>>
       /\ Records = <<>>
       /\ pc = "error" => /\ result.kind = "SimulatorError"
                          /\ result.message[1] = "In circuit"

\* A two-circuit statevector job was rejected for the reset in its second circuit.
C5_Witness ==
  /\ backend = "statevector"
  /\ pc = "error"
  /\ Len(submitted.experiments) = 2
  /\ ~HasOp(submitted.experiments[1], {"measure", "reset"})
  /\ HasOp(submitted.experiments[2], {"reset"})
  /\ result.message[2] = "circuit1"

\* C6: in the statevector variant every circuit runs for exactly one shot and
\* every result record reports one shot, whatever shot counts were requested.
C6_ExactlyOneShot ==
  backend = "statevector"
    => /\ pc \in {"circuit", "shot", "instr", "done"}
            => /\ shots = 1
               /\ qobj.config.shots = 1
               /\ \A k \in 1..Len(qobj.experiments) : qobj.experiments[k].config.shots = 1
       /\ InCircuit => i <= 1 /\ Len(outcomes) = i
       /\ \A k \in 1..Len(Records) :
            /\ Records[k].shots = 1
            /\ SumValues(Records[k].data.counts) = 1

\* A statevector job that asked for 3 shots, its first circuit for 2, is done.
C6_Witness ==
  /\ backend = "statevector"
  /\ pc = "done"
  /\ submitted.config.shots = 3
  /\ submitted.experiments[1].config.shots = 2
  /\ Len(result.results) = 2

\* The amplitude vector after the last instruction of a circuit of the
\* statevector variant (its classical state stays 0).
RECURSIVE FinalWavefunction(_)
FinalWavefunction(instructions) ==
  IF instructions = <<>> THEN <<>>
  ELSE LET o == instructions[Len(instructions)]
       IN  FinalWavefunction(SubSeq(instructions, 1, Len(instructions) - 1))
           \o (IF Passes(0, o) /\ o.name \in GateNames THEN gate_calls(o) ELSE <<>>)

\* C7 (as stated): the statevector field of every result of the statevector
\* variant is the state after the circuit's last instruction, whatever labels
\* the circuit's own snapshots carry; the sentinel entry is gone from the
\* snapshot store and the store is gone when empty.
C7_StatevectorIsFinalState ==
  backend = "statevector" /\ pc = "done"
    => \A k \in 1..Len(result.results) :
         LET data == result.results[k].data
         IN  /\ data.has_statevector
             /\ data.statevector = FinalWavefunction(submitted.experiments[k].instructions)
             /\ ~DictHas(data.snapshots, ToString(FinalStateKey))
             /\ data.has_snapshots <=> data.snapshots # <<>>

\* The step dispatches a reset or an unrecognized operation that is not skipped.
DispatchFails ==
  /\ pc = "instr"
  /\ ip <= Len(Circuit.instructions)
  /\ Passes(classical_state, Circuit.instructions[ip])
  /\ Circuit.instructions[ip].name \notin (GateNames \cup {"measure", "snapshot"})

Rerun == pc = "done" /\ runs >= 2 /\ prev.result.kind = "Result"

\* C9 (as stated): the result of the second circuit of a job with a fixed seed
\* is the same whether or not the first circuit carried a seed override.
C9_SecondCircuitIndependent ==
  Rerun /\ Len(submitted.experiments) = 2 /\ submitted.config.seed # None
        /\ submitted = without_first_seed(prev.qobj)
    => result.results[2] = prev.result.results[2]

\* The circuit runs under a seed the caller fixed: its own, or the job's.
FixedSeed(q, k) ==
  \/ q.config.seed # None
  \/ q.experiments[k].config.present /\ q.experiments[k].config.seed # None

\* C10 (as stated): the same job run twice gives every circuit that runs under
\* a fixed seed the same counts histogram.
C10_SameSeedSameCounts ==
  Rerun /\ prev.qobj = submitted
    => \A k \in 1..Len(submitted.experiments) :
         FixedSeed(submitted, k)
           => result.results[k].data.counts = prev.result.results[k].data.counts

\* C11 (as stated): every recorded outcome is a string over 0 and 1 of length
\* exactly number_of_clbits, whatever classical bits the measurements target
\* and also with no classical bit at all, and the formatting of the outcomes
\* into histogram keys raises no error.
C11_OutcomeHasDeclaredWidth ==
  /\ InCircuit
       => \A k \in 1..Len(outcomes) :
            /\ Len(outcomes[k]) = Circuit.header.number_of_clbits
            /\ \A n \in 1..Len(outcomes[k]) : outcomes[k][n] \in {"0", "1"}
  /\ result.kind # "IndexError"

\* The characters of key that hold the bits offset .. offset + size - 1, counted
\* from the right.
RegisterBits(key, offset, size) ==
  [n \in 1..size |-> key[Len(key) - offset - size + n]]

RECURSIVE RegistersFrom(_, _, _)
\* Registers k, k - 1, .. 1 of key, each separated from the next by one space.
RegistersFrom(key, sizes, k) ==
  IF k = 1 THEN RegisterBits(key, 0, sizes[1])
  ELSE RegisterBits(key, SumTo(sizes, k - 1), sizes[k]) \o << " " >>
       \o RegistersFrom(key, sizes, k - 1)

\* The shot loop of the circuit is over and every outcome is as wide as the
\* classical registers together.
FormatsFullWidthKeys ==
  /\ pc = "shot"
  /\ i >= shots
  /\ cl_reg_nbits(Circuit.header) # <<>>
  /\ \A k \in 1..Len(outcomes) :
       Len(outcomes[k]) = SumTo(cl_reg_nbits(Circuit.header), Len(Circuit.header.clbit_labels))

\* C12: the formatter turns every histogram key whose width is the sum of the
\* register sizes into the registers' substrings joined by single spaces, the
\* last-declared register leftmost, register k holding the bits from offset_k
\* up to offset_k + size_k counted from the right; without the spaces the key is
\* the original key, and the keys keep their counts.
C12_KeysSplitAtRegisters ==
  [][ FormatsFullWidthKeys =>
        LET sizes == cl_reg_nbits(Circuit.header)
            counts == Counter(outcomes)
            fcounts == result_list'[Len(result_list')].data.counts
        IN  /\ pc' = "circuit"
            /\ Len(result_list') = Len(result_list) + 1
            /\ cl_reg_index(Circuit.header) = [k \in 1..Len(sizes) |-> SumTo(sizes, k - 1)]
            /\ Len(fcounts) = Len(counts)
            /\ \A n \in 1..Len(counts) :
                 /\ fcounts[n].value = counts[n].value
                 /\ fcounts[n].key = RegistersFrom(counts[n].key, sizes, Len(sizes))
                 /\ SelectSeq(fcounts[n].key, LAMBDA ch : ch # " ") = counts[n].key
                 /\ Len(fcounts[n].key) = Len(counts[n].key) + Len(sizes) - 1 ]_vars

\* The specification's example has run: registers of sizes 2 and 2, outcome
\* 0101, returned under the key "01 01".
C12_Witness ==
  /\ pc = "done"
  /\ cl_reg_nbits(qobj.experiments[1].header) = << 2, 2 >>
  /\ \E n \in 1..Len(result.results[1].data.counts) :
       result.results[1].data.counts[n].key = << "0", "1", " ", "0", "1" >>

\* Every register's pairs stand next to each other in the list.
ContiguousRuns(labels) ==
  \A a, b, c \in 1..Len(labels) :
     a < b /\ b < c /\ labels[a][1] = labels[c][1] => labels[b][1] = labels[a][1]

\* The positions at which a register name appears for the first time.
FirstAppearances(labels) ==
  SelectSeq([k \in 1..Len(labels) |-> k],
            LAMBDA k : \A j \in 1..(k - 1) : labels[j][1] # labels[k][1])

IndicesOf(labels, name) == { labels[k][2] : k \in { j \in 1..Len(labels) : labels[j][1] = name } }

MaxOf(S) == CHOOSE m \in S : \A n \in S : n <= m

\* One (name, size) entry per register in first-appearance order, the size one
\* more than the largest index of the register.
ExpectedSpecs(labels) ==
  LET firsts == FirstAppearances(labels)
  IN  [k \in 1..Len(firsts) |->
         [name |-> labels[firsts[k]][1],
          size |-> 1 + MaxOf(IndicesOf(labels, labels[firsts[k]][1]))]]

\* Each register's pairs carry the indices 0 .. n - 1, one pair per index.
ZeroBased(labels) ==
  \A k \in 1..Len(labels) :
     LET run == { j \in 1..Len(labels) : labels[j][1] = labels[k][1] }
     IN  IndicesOf(labels, labels[k][1]) = 0 .. (Cardinality(run) - 1)

RECURSIVE SumSizes(_)
SumSizes(specs) == IF specs = <<>> THEN 0 ELSE specs[1].size + SumSizes(Tail(specs))

\* C13: on qubit labels whose registers form contiguous runs the resolver
\* yields one (name, size) entry per register, in first-appearance order, with
\* size = 1 + the largest index of the run; the flattened register allocated
\* from it has the sum of the sizes as its length, which is the number of
\* labels when each run's indices are 0 .. n - 1.
C13_SpecsPerRegister ==
  InCircuit /\ ContiguousRuns(Circuit.header.qubit_labels)
    => LET labels == Circuit.header.qubit_labels
       IN  /\ get_register_specs(labels) = ExpectedSpecs(labels)
           /\ Len(sim.qv) = SumSizes(ExpectedSpecs(labels))
           /\ ZeroBased(labels) => Len(sim.qv) = Len(labels)

\* The specification's example is being run: labels (c,0), (c,1), (d,0) gave
\* c of size 2 and then d of size 1, three qubits in all.
C13_Witness ==
  /\ InCircuit
  /\ Circuit.header.qubit_labels = << << "c", 0 >>, << "c", 1 >>, << "d", 0 >> >>
  /\ get_register_specs(Circuit.header.qubit_labels)
       = << [name |-> "c", size |-> 2], [name |-> "d", size |-> 1] >>
  /\ Len(sim.qv) = 3

\* C14 (as stated): once a job has run, successfully or not, in either backend,
\* the instruction list and the configuration of every circuit of the job
\* object are what the caller supplied.
C14_CircuitsReadOnly ==
  pc \in {"done", "error"}
    => /\ Len(qobj.experiments) = Len(submitted.experiments)
       /\ \A k \in 1..Len(submitted.experiments) :
            /\ qobj.experiments[k].instructions = submitted.experiments[k].instructions
            /\ qobj.experiments[k].config = submitted.experiments[k].config

\* A circuit that carries a shot count of its own.
HasOwnShots(circuit) == circuit.config.present /\ circuit.config.shots # None

\* C15 (as stated): in the base simulator a circuit with a shot count of its
\* own is run for that many shots; the outcomes recorded for it and the shots
\* of its result record are the circuit's count, not the job's.
C15_CircuitShotsOverride ==
  backend = "qasm"
    => /\ InCircuit /\ HasOwnShots(Circuit)
            => Len(outcomes) <= Circuit.config.shots
       /\ \A k \in 1..Len(Records) :
            HasOwnShots(qobj.experiments[k])
              => /\ Records[k].shots = qobj.experiments[k].config.shots
                 /\ SumValues(Records[k].data.counts) = qobj.experiments[k].config.shots

\* Bit b of the non-negative integer n.
BitOf(n, b) == (n \div Pow2(b)) % 2

\* A measurement executed in the current shot wrote a 1 to classical bit b.
WrittenThisShot(b) ==
  \E m \in 1..Len(measured) : measured[m].clbit = b /\ measured[m].bit = 1

\* C16: the classical state is 0 when the first instruction of a shot is
\* dispatched; during the shot it has a 1 only where a measurement of this shot
\* wrote one, and so has the outcome recorded for the shot.
C16_ShotStartsFromZero ==
  /\ pc = "instr" /\ ip = 1 => classical_state = 0
  /\ pc = "instr"
       => \A b \in 0..classical_state : BitOf(classical_state, b) = 1 => WrittenThisShot(b)
  /\ pc = "shot" /\ i > 0
       => /\ Len(outcomes) = i
          /\ \A n \in 1..Len(outcomes[i]) :
               outcomes[i][n] = "1" => WrittenThisShot(Len(outcomes[i]) - n)

\* The second shot of a circuit is about to dispatch its first instruction; the
\* first shot ended with a 1 in its outcome.
C16_Witness ==
  /\ pc = "instr"
  /\ ip = 1
  /\ i = 1
  /\ \E n \in 1..Len(outcomes[1]) : outcomes[1][n] = "1"
  /\ HasOp(Circuit, {"measure"})
  /\ classical_state = 0

\* The step dispatches a measure instruction that is not skipped.
ExecutesMeasure ==
  /\ pc = "instr"
  /\ ip <= Len(Circuit.instructions)
  /\ Circuit.instructions[ip].name = "measure"
  /\ Passes(classical_state, Circuit.instructions[ip])

\* C17: an executed measure instruction with target classical bit c, the kernel
\* returning v, leaves the classical state with bit c equal to v, whatever it
\* was, and every other bit as it was.
C17_MeasureReplacesOneBit ==
  [][ ExecutesMeasure =>
        LET c == Circuit.instructions[ip].clbits[1]
            last == calls'[Len(calls')]
        IN  /\ Len(calls') = Len(calls) + 1
            /\ last.op = "Measure"
            /\ last.qubits = << Circuit.instructions[ip].qubits[1] >>
            /\ last.arg \in {0, 1}
            /\ BitOf(classical_state', c) = last.arg
            /\ \A b \in 0..(classical_state + classical_state') :
                 b # c => BitOf(classical_state', b) = BitOf(classical_state, b) ]_vars

\* Classical bit 0 held a 1 from a first measurement and a second measurement
\* has replaced it by 0.
C17_Witness ==
  /\ pc = "instr"
  /\ ip = 4
  /\ measured = << [clbit |-> 0, bit |-> 1], [clbit |-> 0, bit |-> 0] >>
  /\ classical_state = 0

\* The calls Measure on qubits 0 .. n - 1 in turn, whatever bits they returned.
IsMeasureOfAll(cs, n) ==
  /\ Len(cs) = n
  /\ \A q \in 1..n : cs[q].op = "Measure" /\ cs[q].qubits = << q - 1 >>

\* C18: within a shot the classical state changes only in the step of an
\* executed measure instruction; gates, identity, barrier, snapshot, skipped
\* instructions and the terminal measurement leave it as it is.  The terminal
\* measurement of every qubit of the register, then a flush, are issued once
\* the last instruction has been dispatched, in the step that records the
\* outcome from the unchanged classical state, and in no other step.
C18_OnlyMeasureWritesState ==
  [][ pc = "instr" =>
        /\ ~ExecutesMeasure => classical_state' = classical_state
        /\ IF ShotOver
           THEN LET n == Circuit.header.number_of_qubits
                IN  /\ Len(calls') = Len(calls) + n + 1
                    /\ SubSeq(calls', 1, Len(calls)) = calls
                    /\ IsMeasureOfAll(SubSeq(calls', Len(calls) + 1, Len(calls) + n), n)
                    /\ n = Len(sim.qv) => \A q \in 1..Len(sim.qv) : sim'.qv[q] \in {0, 1}
                    /\ calls'[Len(calls')].op = "flush"
                    /\ outcomes' = Append(outcomes,
                                          outcome_string(classical_state,
                                                         Circuit.header.number_of_clbits))
           ELSE /\ outcomes' = outcomes \/ pc' = "error"
                /\ ip' = ip + 1 \/ pc' = "error" ]_vars

\* A shot of the circuit "h, id, snapshot" has ended: the terminal measurement
\* returned 1, the classical state is 0 and the outcome recorded is 0.
C18_Witness ==
  /\ pc = "shot"
  /\ i = 1
  /\ Circuit.instructions = << H(0), Id(0), Snapshot(1) >>
  /\ Len(calls) >= 2
  /\ calls[Len(calls) - 1] = Call("Measure", << 0 >>, 1)
  /\ classical_state = 0
  /\ outcomes = << << "0" >> >>

\* The instruction kinds the dispatcher executes without raising.
ScreenedKinds == GateNames \cup {"measure", "snapshot"}

\* C19 (as stated): an instruction of a screened kind whose conditional is false
\* is skipped without kernel call, classical-state change or snapshot entry; a
\* reset or an unrecognized operation fails with its error, the latter naming
\* the backend and the operation, also when its conditional is false.
C19_ResetAndUnknownNotScreened ==
  [][ pc = "instr" /\ ip <= Len(Circuit.instructions)
        /\ HasConditional(Circuit.instructions[ip]) =>
        LET operation == Circuit.instructions[ip]
        IN  IF operation.name \in ScreenedKinds
            THEN ~Passes(classical_state, operation)
                   => /\ calls' = calls
                      /\ classical_state' = classical_state
                      /\ snapshots' = snapshots
                      /\ pc' = "instr" /\ ip' = ip + 1
            ELSE /\ pc' = "error"
                 /\ result'.kind = "SimulatorError"
                 /\ operation.name # "reset"
                      => result'.message = << BackendName,
                                             "encountered unrecognized operation",
                                             operation.name >> ]_vars

\* The shots of the current circuit that have started.
ShotsStarted == IF pc = "instr" THEN i + 1 ELSE i

\* C20 (as stated): the store holds under each label at most one vector per
\* shot, and a result record carries the store exactly when it is not empty.
C20_OneVectorPerShot ==
  /\ InCircuit
       => \A n \in 1..Len(snapshots) :
            /\ snapshots[n].value # <<>>
            /\ Len(snapshots[n].value) <= ShotsStarted
  /\ backend = "qasm"
       => \A k \in 1..Len(Records) :
            Records[k].data.has_snapshots <=> Records[k].data.snapshots # <<>>

\* The step dispatches a snapshot instruction that is not skipped.
ExecutesSnapshot ==
  /\ pc = "instr"
  /\ ip <= Len(Circuit.instructions)
  /\ Circuit.instructions[ip].name = "snapshot"
  /\ Passes(classical_state, Circuit.instructions[ip])

\* C20 (amended): the store is empty when a circuit starts; every executed
\* snapshot instruction flushes the kernel, reads the amplitude vector and
\* appends it behind the vectors its label already holds (a new label is added
\* behind the others), so that a label holds one vector per executed snapshot
\* instruction with that label, in execution order; no other step of the
\* circuit changes the store, and the result record carries the store as it
\* is at the end of the last shot, and no store when it is empty.
C20_OneVectorPerExecution ==
  [][ /\ pc = "circuit" /\ pc' = "shot" => snapshots' = <<>>
      /\ pc = "shot" /\ i < shots => snapshots' = snapshots
      /\ pc = "instr" /\ ~ExecutesSnapshot => snapshots' = snapshots \/ pc' = "error"
      /\ ExecutesSnapshot =>
           LET label == ToString(Circuit.instructions[ip].params[1])
               held == IF DictHas(snapshots, label) THEN DictGet(snapshots, label) ELSE <<>>
           IN  /\ calls' = calls \o << Call("flush", <<>>, 0), Call("cheat", <<>>, 0) >>
               /\ DictHas(snapshots', label)
               /\ DictGet(snapshots', label) = Append(held, wavefunction(calls))
               /\ Len(snapshots') = Len(snapshots) + (IF held = <<>> THEN 1 ELSE 0)
               /\ \A n \in 1..Len(snapshots) :
                    /\ snapshots'[n].key = snapshots[n].key
                    /\ snapshots[n].key # label => snapshots'[n] = snapshots[n]
      /\ pc = "shot" /\ i >= shots /\ pc' = "circuit" =>
           LET data == result_list'[Len(result_list')].data
           IN  /\ data.has_snapshots <=> snapshots # <<>>
               /\ data.snapshots = snapshots ]_vars

\* A two-shot job is done whose circuit held two snapshot instructions with
\* label 1: the label holds four vectors, and label 2 is absent.
C20_Witness ==
  /\ pc = "done"
  /\ backend = "qasm"
  /\ result.results[1].shots = 2
  /\ result.results[1].data.has_snapshots
  /\ DictHas(result.results[1].data.snapshots, "1")
  /\ Len(DictGet(result.results[1].data.snapshots, "1")) = 4
  /\ ~DictHas(result.results[1].data.snapshots, "2")

\* Every qubit of the flattened register is in the basis state 0.
AllZero(s) == \A q \in 1..Len(s.qv) : s.qv[q] = 0

\* C21: the head of every shot i > 0 issues a flush and then the injection of
\* the cached ground state, in that order and before the first instruction of
\* the shot, so that the whole register is in the all-zero state whatever the
\* shot before left; the ground state was built (shots > 1) whenever it is
\* injected.  The head of shot 0 issues no call and leaves the freshly
\* allocated register alone.  Every shot dispatches its first instruction on
\* the all-zero register.
C21_LaterShotsInjectGroundState ==
  [][ /\ pc = "shot" /\ i < shots =>
           /\ pc' = "instr" /\ ip' = 1 /\ i' = i
           /\ IF i > 0
              THEN /\ calls' = << Call("flush", <<>>, 0), Call("set_wavefunction", <<>>, 0) >>
                   /\ ground_state_built
                   /\ Len(sim'.qv) = Len(sim.qv)
                   /\ sim'.seed = sim.seed /\ sim'.draws = sim.draws
              ELSE /\ calls' = <<>>
                   /\ sim' = sim
           /\ AllZero(sim')
           /\ wavefunction(calls') = <<>>
      /\ pc = "instr" => \A n \in 1..Len(calls') : calls'[n].op = "set_wavefunction" => n = 2
    ]_vars

\* The second shot of a circuit is about to dispatch its first instruction: the
\* first shot left qubit 0 in state 1, the flush and the injection have been
\* issued and the qubit is back in state 0.
C21_Witness ==
  /\ pc = "instr"
  /\ ip = 1
  /\ i = 1
  /\ shots = 2
  /\ calls = << Call("flush", <<>>, 0), Call("set_wavefunction", <<>>, 0) >>
  /\ outcomes = << << "1" >> >>
  /\ sim.draws > 0
  /\ sim.qv = << 0 >>

\* The step dispatches a gate, identity or barrier instruction that is not skipped.
ExecutesGate ==
  /\ pc = "instr"
  /\ ip <= Len(Circuit.instructions)
  /\ Circuit.instructions[ip].name \in GateNames
  /\ Passes(classical_state, Circuit.instructions[ip])

\* The dispatch table as the specification states it, angles in units of pi/2.
DispatchTable(operation) ==
  LET qubit == << operation.qubits[1] >>
      Zrotation(angle) == Call("Rz", qubit, angle)
      Yrotation(angle) == Call("Ry", qubit, angle)
      Xrotation(angle) == Call("Rx", qubit, angle)
  IN  IF operation.name \in {"U", "u3"}
      THEN LET theta == operation.params[1]
               phi == operation.params[2]
               lambda == operation.params[3]
           IN  << Zrotation(lambda), Yrotation(theta), Zrotation(phi) >>
      ELSE IF operation.name = "u2"
      THEN LET phi == operation.params[1]
               lambda == operation.params[2]
           IN  << Zrotation(lambda - 1), Xrotation(1), Zrotation(phi + 1) >>
      ELSE IF operation.name = "u1" THEN << Zrotation(operation.params[1]) >>
      ELSE IF operation.name = "t" THEN << Call("T", qubit, 0) >>
      ELSE IF operation.name = "h" THEN << Call("H", qubit, 0) >>
      ELSE IF operation.name = "s" THEN << Call("S", qubit, 0) >>
      ELSE IF operation.name \in {"CX", "cx"}
      THEN << Call("CX", << operation.qubits[1], operation.qubits[2] >>, 0) >>
      ELSE <<>>

\* C22: an executed gate instruction issues exactly the kernel calls of the
\* dispatch table, in its order, on the qubit at the instruction's index of the
\* flattened register: Rz(lambda), Ry(theta), Rz(phi) for the generic unitary,
\* Rz(lambda - pi/2), Rx(pi/2), Rz(phi + pi/2) for the two-parameter unitary,
\* Rz(lambda) for the phase-only unitary, the native gate for t, h, s and
\* controlled-NOT, and no call for identity and barrier.
C22_DispatchTableCalls ==
  [][ ExecutesGate =>
        LET operation == Circuit.instructions[ip]
            issued == SubSeq(calls', Len(calls) + 1, Len(calls'))
        IN  /\ SubSeq(calls', 1, Len(calls)) = calls
            /\ issued = DispatchTable(operation)
            /\ \A n \in 1..Len(issued) :
                 \A k \in 1..Len(issued[n].qubits) :
                    /\ issued[n].qubits[k] = operation.qubits[k]
                    /\ issued[n].qubits[k] < Len(sim.qv)
            /\ operation.name \in {"id", "u0", "barrier"} => calls' = calls /\ sim' = sim
            /\ pc' = "instr" /\ ip' = ip + 1 ]_vars

\* A generic unitary (theta, phi, lambda) = (1, 2, 3) on qubit 1 and a
\* two-parameter unitary (phi, lambda) = (1, 2) on qubit 0 have been dispatched.
C22_Witness ==
  /\ pc = "instr"
  /\ ip = 3
  /\ Circuit.instructions = << U3(1, 1, 2, 3), U2(0, 1, 2) >>
  /\ calls = << Call("Rz", <<1>>, 3), Call("Ry", <<1>>, 1), Call("Rz", <<1>>, 2),
                Call("Rz", <<0>>, 1), Call("Rx", <<0>>, 1), Call("Rz", <<0>>, 2) >>

====
